---- MODULE Spec2Model ----
(***************************************************************************)
(* Model of AsyncCTK (async_customtkinter.py): a customtkinter window      *)
(* driven by three coroutines on one asyncio event loop: the GUI event     *)
(* pump (_gui_mainloop), the periodic update runner                        *)
(* (_update_func_mainloop) and the command dispatcher (_command_mainloop), *)
(* composed by mainloop() with asyncio.gather.                             *)
(*                                                                         *)
(* One action is one synchronous run of a coroutine between two of its     *)
(* suspension points.  The event drain of _gui_mainloop is split into one  *)
(* step per dooneevent call; while it is in progress no other coroutine    *)
(* runs (Suspended).  Time is counted in ticks relative to the start of    *)
(* the current update cycle; the 10 ms and 100 ms sleeps of the pump and   *)
(* the dispatcher are untimed.                                             *)
(***************************************************************************)
EXTENDS Integers, Sequences, FiniteSets

VARIABLES
    _update_funcs,        \* self._update_funcs: list of update functions
    commands_queue,       \* self.commands_queue: ids of queued gather futures
    _application_closed,  \* self._application_closed
    window_alive,         \* the Tk main window exists (winfo_exists succeeds)
    events,               \* pending native UI events (clicks, close request)
    cmds,                 \* tasks created by wrapper(), indexed by submission
    reg_op,               \* history: the last registry operation observed
    blocked,              \* a Queue.put call is blocked on a full queue
    main_st,              \* mainloop(): "init", "running", "returned", "failed"
    gui_pc,               \* _gui_mainloop position
    upd_pc,               \* _update_func_mainloop position
    cmd_pc,               \* _command_mainloop position
    cmd_cur,              \* id of the command the dispatcher awaits (0: none)
    dequeued,             \* ids returned by commands_queue.get(), in order
    coroutines,           \* update tasks of the current cycle
    orphans,              \* update tasks of earlier cycles still running
    elapsed,              \* ticks since the current cycle started
    wait_for_st,          \* asyncio.wait_for(gather(*coroutines), timeout)
    floor_st,             \* asyncio.sleep(interval) of the current cycle
    last,                 \* how the most recently finished cycle ended
    callbacks,            \* handlers a callback was made for and bound to a button
    calls                 \* history: number of invocations of a callback

vars == <<_update_funcs, commands_queue, _application_closed, window_alive,
          events, cmds, reg_op, blocked, main_st, gui_pc, upd_pc, cmd_pc,
          cmd_cur, dequeued, coroutines, orphans, elapsed, wait_for_st,
          floor_st, last, callbacks, calls>>

(* ------------------------------ bounds --------------------------------- *)
MaxCmds == 3      \* wrapper() invocations (clicks) in a run
MaxFuncs == 2     \* length of the update registry
MaxOrphans == 1   \* update tasks left running by earlier cycles
Interval == 2     \* update_interval, in ticks

(* ------------------------------ inputs --------------------------------- *)
\* Async handlers bound to buttons: one that awaits and returns (like
\* async_show_popup) and one that awaits and raises.
Handlers == {"h_ok", "h_raise"}

\* Update functions: "fast" returns before the interval, "slow" needs longer
\* than the interval (update_time in the example), "err" raises an ordinary
\* error, "tmo" raises asyncio.TimeoutError itself.
Funcs == {"fast", "slow", "err", "tmo"}

Dur(f) == IF f = "slow" THEN Interval + 1 ELSE 1

Outcome(f) == CASE f = "err" -> "error"
                [] f = "tmo" -> "timeout_error"
                [] OTHER -> "ok"

HandlerOutcome(h) == IF h = "h_raise" THEN "failed" ELSE "done"

Range(s) == {s[i] : i \in 1..Len(s)}

(* --------------------------- list and queue ---------------------------- *)
\* list.append (line 43)
ListAppend(l, f) == Append(l, f)

\* Smallest index of f in l, 0 when f is not in l (the scan of list.remove).
ListIndex(l, f) ==
    IF \E i \in 1..Len(l) : l[i] = f
    THEN CHOOSE i \in 1..Len(l) : l[i] = f /\ \A j \in 1..(i - 1) : l[j] # f
    ELSE 0

RemoveAt(l, i) == SubSeq(l, 1, i - 1) \o SubSeq(l, i + 1, Len(l))

\* list.remove (line 50): deletes the first entry equal to f; when there is
\* none it raises ValueError and leaves the list as it is.
ListRemoveAll(l, f) == SelectSeq(l, LAMBDA x : x # f)
ListRemoveWrap(l, f) ==
    IF ListIndex(l, f) = 0 THEN SubSeq(l, 1, Len(l) - 1)
                           ELSE RemoveAt(l, ListIndex(l, f))
ListRemove(l, f) ==
    IF ListIndex(l, f) = 0 THEN l ELSE RemoveAt(l, ListIndex(l, f))

ListRemoveRaises(l, f) == ListIndex(l, f) = 0

\* Queue() (line 19): maxsize 0, which means no capacity limit.
maxsize_one == 2 - 1
maxsize == 0

QueueFull(q) == maxsize > 0 /\ Len(q) >= maxsize

\* Queue.put (line 73) and Queue.get (line 100): FIFO.
QueuePutFront(q, x) == <<x>> \o q
QueuePut(q, x) == Append(q, x)

QueueGetLast(q) == q[Len(q)]
QueueGet(q) == Head(q)

QueueRestButLast(q) == SubSeq(q, 1, Len(q) - 1)
QueueRest(q) == Tail(q)

(* ------------------------------ asyncio -------------------------------- *)
\* A task state that ends a task.
Finished(st) == st \in {"done", "failed", "cancelled"}

\* `await command` (line 101) resumes once the awaited future is finished.
AwaitResumesAlways(st) == TRUE
AwaitResumesNever(st) == FALSE
AwaitResumes(st) == Finished(st)

\* asyncio.gather(*aws) without return_exceptions, over the states of its
\* children: the first exception is propagated at once, otherwise the result
\* is ready when every child is done.  The children that are still running
\* when an exception is propagated are not cancelled.
GatherFirstCompleted(sts) ==
    IF \E i \in 1..Len(sts) : sts[i] = "failed" THEN "failed"
    ELSE IF \E i \in 1..Len(sts) : sts[i] = "done" THEN "done"
    ELSE "pending"
Gather(sts) ==
    IF \E i \in 1..Len(sts) : sts[i] = "failed" THEN "failed"
    ELSE IF \A i \in 1..Len(sts) : sts[i] = "done" THEN "done"
    ELSE "pending"

\* State of a loop's task, from the loop's position.
LoopTask(pc) == IF pc \in {"done", "failed"} THEN pc ELSE "pending"

\* No synchronous section is in progress: a coroutine may take a step.  The
\* event drain of _gui_mainloop (lines 112-113) never yields to the loop.
Suspended == gui_pc # "drain" /\ ~blocked

\* Value of `reg_op` before any registry operation is observed.
NoOp == [op |-> "none", f |-> "none", before |-> <<>>]

\* Value of `last` before any cycle has finished.
NoCycle == [len |-> 0, exc |-> "none", prints |-> 0, ok |-> FALSE,
            ended |-> FALSE]

(* ------------------------------- Init ---------------------------------- *)
\* AsyncCTK.__init__ (lines 10-23) and _prepare_async (lines 35-36); the
\* constructor of a subclass may register an update function that overruns
\* (ExampleGUI.__init__, example lines 16-20).
Init ==
    /\ _update_funcs \in {<<>>, <<"slow">>}
    /\ commands_queue = <<>>
    /\ _application_closed = FALSE
    /\ window_alive = TRUE
    /\ events = <<>>
    /\ cmds = <<>>
    /\ reg_op = NoOp
    /\ blocked = FALSE
    /\ main_st = "init"
    /\ gui_pc = "idle"
    /\ upd_pc = "idle"
    /\ cmd_pc = "idle"
    /\ cmd_cur = 0
    /\ dequeued = <<>>
    /\ coroutines = <<>>
    /\ orphans = 0
    /\ elapsed = 0
    /\ wait_for_st = "none"
    /\ floor_st = "none"
    /\ last = NoCycle
    /\ callbacks = {}
    /\ calls = 0

regVars == <<_update_funcs, reg_op>>
queueVars == <<commands_queue, cmds, blocked>>
cmdLoopVars == <<cmd_pc, cmd_cur, dequeued>>
updLoopVars == <<upd_pc, coroutines, orphans, elapsed, wait_for_st, floor_st,
                 last>>
guiVars == <<gui_pc, events, window_alive>>
cbVars == <<callbacks, calls>>
otherVars == <<queueVars, cmdLoopVars, updLoopVars, guiVars, main_st,
               _application_closed, cbVars>>

(* ------------------------- registry operations ------------------------- *)
\* add_update_func (lines 39-43)
add_update_func(f) ==
    /\ Len(_update_funcs) < MaxFuncs
    /\ _update_funcs' = ListAppend(_update_funcs, f)
    /\ UNCHANGED otherVars

\* remove_update_func (lines 46-50)
remove_update_func(f) ==
    /\ _update_funcs' = ListRemove(_update_funcs, f)
    /\ UNCHANGED otherVars

\* The registry operations with their call and outcome recorded in reg_op.
Observed(op, f) ==
    reg_op' = [op |-> IF op = "remove" /\ ListRemoveRaises(_update_funcs, f)
                      THEN "ValueError" ELSE op,
               f |-> f, before |-> _update_funcs]

AddObserved(f) == add_update_func(f) /\ Observed("add", f)

RemoveObserved(f) == remove_update_func(f) /\ Observed("remove", f)

(* ---------------------- native events (environment) -------------------- *)
\* The user clicks a button whose command is execute_async_command(h)
\* (example, line 23), or asks to close the window.
Clicks == Len(cmds) + Cardinality({i \in 1..Len(events) : events[i] \in Handlers})

UserClick(h) ==
    /\ window_alive
    /\ h \in callbacks
    /\ Clicks < MaxCmds
    /\ events' = Append(events, h)
    /\ UNCHANGED <<regVars, queueVars, cmdLoopVars, updLoopVars, gui_pc,
                   window_alive, main_st, _application_closed, cbVars>>

UserClose ==
    /\ window_alive
    /\ "destroy" \notin Range(events)
    /\ events' = Append(events, "destroy")
    /\ UNCHANGED <<regVars, queueVars, cmdLoopVars, updLoopVars, gui_pc,
                   window_alive, main_st, _application_closed, cbVars>>

(* ------------------------ execute_async_command ------------------------ *)
\* execute_async_command(h) (lines 53-75) makes the callback and returns it;
\* the caller binds it to a button (example, line 23).  Nothing is run and
\* nothing is queued until the callback is invoked.
execute_async_command(h) ==
    /\ h \notin callbacks
    /\ callbacks' = callbacks \cup {h}
    /\ UNCHANGED <<regVars, queueVars, cmdLoopVars, updLoopVars, guiVars,
                   main_st, _application_closed, calls>>

\* wrapper() (lines 68-73), called by the toolkit for a click on a button
\* bound to execute_async_command(h).  asyncio.gather(async_func()) wraps the
\* coroutine in a task, which the event loop schedules at once; the gather
\* future is then put on the queue.  A put on a full queue blocks the thread.
wrapperTwice(h) ==
    /\ cmds' = cmds \o <<[h |-> h, st |-> "scheduled"],
                         [h |-> h, st |-> "scheduled"]>>
    /\ commands_queue' = QueuePut(commands_queue, Len(cmds) + 1)
    /\ blocked' = FALSE
wrapper(h) ==
    IF QueueFull(commands_queue)
    THEN /\ blocked' = TRUE
         /\ UNCHANGED <<commands_queue, cmds>>
    ELSE /\ cmds' = Append(cmds, [h |-> h, st |-> "scheduled"])
         /\ commands_queue' = QueuePut(commands_queue, Len(cmds) + 1)
         /\ blocked' = FALSE

(* ---------------------------- _gui_mainloop ---------------------------- *)
\* dooneevent(DONT_WAIT) > 0 (line 112) with a click pending.
GuiDooneeventClick ==
    /\ gui_pc = "drain" /\ ~blocked
    /\ events # <<>> /\ Head(events) \in Handlers
    /\ wrapper(Head(events))
    /\ calls' = calls + 1
    /\ events' = Tail(events)
    /\ UNCHANGED <<regVars, cmdLoopVars, updLoopVars, gui_pc, window_alive,
                   main_st, _application_closed, callbacks>>

\* dooneevent(DONT_WAIT) > 0 (line 112) with the close request pending: the
\* window is destroyed and the events still pending for it are dropped.
GuiDooneeventDestroy ==
    /\ gui_pc = "drain" /\ ~blocked
    /\ events # <<>> /\ Head(events) = "destroy"
    /\ window_alive' = FALSE
    /\ events' = <<>>
    /\ UNCHANGED <<regVars, queueVars, cmdLoopVars, updLoopVars, gui_pc,
                   main_st, _application_closed, cbVars>>

\* The drain loop `while self.dooneevent(DONT_WAIT) > 0` (lines 112-113) is
\* left when dooneevent returns 0: no event is pending.
DrainDoneAtOnce(evs) == TRUE
DrainDone(evs) == evs = <<>>

\* dooneevent returns 0, then winfo_exists() (lines 115-118) and the sleep
\* (line 120) or the break.
GuiCheck ==
    /\ gui_pc = "drain" /\ ~blocked
    /\ DrainDone(events)
    /\ gui_pc' = IF window_alive THEN "sleep" ELSE "done"
    /\ UNCHANGED <<regVars, queueVars, cmdLoopVars, updLoopVars, events,
                   window_alive, main_st, _application_closed, cbVars>>

\* asyncio.sleep(0.01) is over (line 120): next tick.
GuiWake ==
    /\ gui_pc = "sleep" /\ ~blocked
    /\ gui_pc' = "drain"
    /\ UNCHANGED <<regVars, queueVars, cmdLoopVars, updLoopVars, events,
                   window_alive, main_st, _application_closed, cbVars>>

(* --------------------------- handler tasks ----------------------------- *)
\* The task of command i runs up to its first await.  The loop's ready queue
\* is FIFO: tasks take their first step in the order they were created.
HandlerStart(i) ==
    /\ Suspended
    /\ cmds[i].st = "scheduled"
    /\ \A k \in 1..(i - 1) : cmds[k].st # "scheduled"
    /\ cmds' = [cmds EXCEPT ![i].st = "running"]
    /\ UNCHANGED <<regVars, commands_queue, blocked, cmdLoopVars, updLoopVars,
                   guiVars, main_st, _application_closed, cbVars>>

\* The task of command i returns or raises.
HandlerFinish(i) ==
    /\ Suspended
    /\ cmds[i].st = "running"
    /\ cmds' = [cmds EXCEPT ![i].st = HandlerOutcome(cmds[i].h)]
    /\ UNCHANGED <<regVars, commands_queue, blocked, cmdLoopVars, updLoopVars,
                   guiVars, main_st, _application_closed, cbVars>>

(* -------------------------- _command_mainloop -------------------------- *)
\* Position after `await command` (line 101) is over with state st.
AfterAwaitSwallows(st) == "sleep"
AfterAwaitNoDelay(st) == IF st = "failed" THEN "failed" ELSE "ready"
AfterAwait(st) == IF st = "failed" THEN "failed" ELSE "sleep"

\* One iteration from the top of the loop (lines 98-102), up to the first
\* suspension: the await of the command, or the sleep.  Awaiting a future that
\* is already finished does not suspend.
CmdIterate ==
    /\ Suspended
    /\ cmd_pc \in {"ready", "sleep"}
    /\ IF commands_queue = <<>>
       THEN /\ cmd_pc' = "sleep"
            /\ UNCHANGED <<commands_queue, cmd_cur, dequeued>>
       ELSE LET id == QueueGet(commands_queue) IN
            /\ commands_queue' = QueueRest(commands_queue)
            /\ dequeued' = Append(dequeued, id)
            /\ IF AwaitResumes(cmds[id].st)
               THEN cmd_pc' = AfterAwait(cmds[id].st) /\ cmd_cur' = 0
               ELSE cmd_pc' = "await" /\ cmd_cur' = id
    /\ UNCHANGED <<regVars, cmds, blocked, updLoopVars, guiVars, main_st,
                   _application_closed, cbVars>>

\* The awaited command is finished: the dispatcher resumes (line 101) and
\* goes to sleep (line 102), or the command's exception leaves the loop.
CmdAwaitResume ==
    /\ Suspended
    /\ cmd_pc = "await"
    /\ AwaitResumes(cmds[cmd_cur].st)
    /\ cmd_pc' = AfterAwait(cmds[cmd_cur].st)
    /\ cmd_cur' = 0
    /\ UNCHANGED <<regVars, queueVars, dequeued, updLoopVars, guiVars, main_st,
                   _application_closed, cbVars>>

(* ------------------------ _update_func_mainloop ------------------------ *)
\* coroutines = [update_func() for update_func in self._update_funcs]
\* (line 131), each wrapped in a task by asyncio.gather(*coroutines).
CoroutinesButLast(reg) ==
    [i \in 1..(Len(reg) - 1) |-> [f |-> reg[i], st |-> "running"]]
Coroutines(reg) ==
    [i \in 1..Len(reg) |-> [f |-> reg[i], st |-> "running"]]

Running(cs) == {i \in 1..Len(cs) : cs[i].st = "running"}

\* The two children of the outer gather (lines 134-137) as task states.
WaitForTask == CASE wait_for_st = "pending" -> "pending"
                 [] wait_for_st = "done" -> "done"
                 [] OTHER -> "failed"

FloorTaskNone == "done"
FloorTask == IF floor_st = "done" THEN "done" ELSE "pending"

OuterGather == Gather(<<WaitForTask, FloorTask>>)

\* except asyncio.TimeoutError (line 138): the exceptions the clause catches,
\* raised by wait_for on expiry or by an update function itself.
CatchesNothing(exc) == FALSE
CatchesException(exc) == exc # "none"
Catches(exc) == exc \in {"timeout", "timeout_error"}

\* Number of warnings printed for a caught exception (lines 139-140).
PrintsTwice(exc) == IF Catches(exc) THEN 2 ELSE 0
Prints(exc) == IF Catches(exc) THEN 1 ELSE 0

\* Top of the loop body (lines 131-137), up to the await of the outer gather.
\* gather() of no coroutine is a future that is already done.
BeginCycle ==
    /\ coroutines' = Coroutines(_update_funcs)
    /\ elapsed' = 0
    /\ wait_for_st' = IF _update_funcs = <<>> THEN "done" ELSE "pending"
    /\ floor_st' = "pending"
    /\ upd_pc' = "wait"

\* First step of the task of _update_func_mainloop.
UpdStart ==
    /\ Suspended
    /\ upd_pc = "start"
    /\ BeginCycle
    /\ UNCHANGED <<regVars, queueVars, cmdLoopVars, guiVars, main_st, orphans,
                   last, _application_closed, cbVars>>

\* One tick of time passes.  Callbacks that are due run first: an update task
\* whose time is up, the expiry of wait_for, the end of the floor sleep and
\* the resumption of the loop.
Tick ==
    /\ upd_pc = "wait"
    /\ elapsed < Interval
    /\ OuterGather = "pending"
    /\ \A i \in Running(coroutines) : Dur(coroutines[i].f) > elapsed
    /\ elapsed' = elapsed + 1
    /\ UNCHANGED <<regVars, queueVars, cmdLoopVars, guiVars, main_st, upd_pc,
                   coroutines, orphans, wait_for_st, floor_st, last,
                   _application_closed, cbVars>>

\* Update task i of the current cycle returns or raises.  The inner gather
\* propagates the first exception to wait_for at once and leaves the other
\* tasks running; it is done when every task has returned.
TaskFinish(i) ==
    /\ Suspended
    /\ upd_pc = "wait" /\ wait_for_st = "pending"
    /\ i \in Running(coroutines) /\ Dur(coroutines[i].f) <= elapsed
    /\ Outcome(coroutines[i].f) # "ok"
          => orphans + Cardinality(Running(coroutines) \ {i}) <= MaxOrphans
    /\ LET out == Outcome(coroutines[i].f)
           others == Running(coroutines) \ {i}
       IN  IF out = "ok"
           THEN /\ coroutines' = [coroutines EXCEPT ![i].st = "ok"]
                /\ wait_for_st' = IF others = {} THEN "done" ELSE "pending"
                /\ orphans' = orphans
           ELSE /\ coroutines' = [k \in 1..Len(coroutines) |->
                                    IF k = i THEN [coroutines[k] EXCEPT !.st = out]
                                    ELSE IF k \in others
                                    THEN [coroutines[k] EXCEPT !.st = "orphaned"]
                                    ELSE coroutines[k]]
                /\ wait_for_st' = out
                /\ orphans' = orphans + Cardinality(others)
    /\ UNCHANGED <<regVars, queueVars, cmdLoopVars, guiVars, main_st, upd_pc,
                   elapsed, floor_st, last, _application_closed, cbVars>>

\* Cancelling the inner gather (line 135) cancels each of its tasks that is
\* not finished.
CancelFirst(cs) ==
    [i \in 1..Len(cs) |-> IF i = 1 /\ cs[i].st = "running"
                          THEN [cs[i] EXCEPT !.st = "cancelled"]
                          ELSE cs[i]]
CancelGroup(cs) ==
    [i \in 1..Len(cs) |-> IF cs[i].st = "running"
                          THEN [cs[i] EXCEPT !.st = "cancelled"]
                          ELSE cs[i]]

\* The timeout of wait_for (line 135) expires: it cancels the inner gather,
\* which cancels every task of the cycle that is still running, and raises
\* TimeoutError.
Deadline ==
    /\ Suspended
    /\ upd_pc = "wait" /\ wait_for_st = "pending"
    /\ elapsed = Interval
    /\ coroutines' = CancelGroup(coroutines)
    /\ wait_for_st' = "timeout"
    /\ UNCHANGED <<regVars, queueVars, cmdLoopVars, guiVars, main_st, upd_pc,
                   orphans, elapsed, floor_st, last,
                   _application_closed, cbVars>>

\* asyncio.sleep(interval) (line 136) is over; its timer is set after that of
\* wait_for, so it fires after it.
FloorElapse ==
    /\ Suspended
    /\ upd_pc = "wait" /\ floor_st = "pending" /\ wait_for_st # "pending"
    /\ elapsed = Interval
    /\ floor_st' = "done"
    /\ UNCHANGED <<regVars, queueVars, cmdLoopVars, guiVars, main_st, upd_pc,
                   coroutines, orphans, elapsed, wait_for_st, last,
                   _application_closed, cbVars>>

\* An update task of an earlier cycle that was left running ends.
OrphanFinish ==
    /\ Suspended
    /\ orphans > 0
    /\ orphans' = orphans - 1
    /\ UNCHANGED <<regVars, queueVars, cmdLoopVars, guiVars, main_st, upd_pc,
                   coroutines, elapsed, wait_for_st, floor_st, last,
                   _application_closed, cbVars>>

\* if self._application_closed: break (lines 142-143)
ExitRequestedWindowGone == ~window_alive
ExitRequested == _application_closed

\* The outer gather is resolved: the loop resumes (lines 138-143) and, unless
\* an exception leaves it or the application is closed, starts the next cycle.
UpdResume ==
    /\ Suspended
    /\ upd_pc = "wait"
    /\ OuterGather # "pending"
    /\ LET exc == IF OuterGather = "done" THEN "none" ELSE wait_for_st IN
       /\ last' = [len |-> elapsed, exc |-> exc, prints |-> Prints(exc),
                   ok |-> \A i \in 1..Len(coroutines) : coroutines[i].st = "ok",
                   ended |-> TRUE]
       /\ IF exc # "none" /\ ~Catches(exc)
          THEN /\ upd_pc' = "failed"
               /\ UNCHANGED <<coroutines, elapsed, wait_for_st, floor_st>>
          ELSE IF ExitRequested
          THEN /\ upd_pc' = "done"
               /\ UNCHANGED <<coroutines, elapsed, wait_for_st, floor_st>>
          ELSE BeginCycle
    /\ UNCHANGED <<regVars, queueVars, cmdLoopVars, guiVars, main_st, orphans,
                   _application_closed, cbVars>>

(* ------------------------------ mainloop ------------------------------- *)
\* mainloop() is called (lines 87-91): gather creates the three tasks; the
\* event pump is the first to run.
MainloopStart ==
    /\ main_st = "init"
    /\ main_st' = "running"
    /\ gui_pc' = "drain"
    /\ upd_pc' = "start"
    /\ cmd_pc' = "ready"
    /\ UNCHANGED <<regVars, queueVars, cmd_cur, dequeued, coroutines, orphans,
                   elapsed, wait_for_st, floor_st, last, events,
                   window_alive, _application_closed, cbVars>>

MainGather == Gather(<<LoopTask(gui_pc), LoopTask(upd_pc), LoopTask(cmd_pc)>>)

\* The gather of the three loops is resolved: mainloop() returns or raises.
MainloopComplete ==
    /\ Suspended
    /\ main_st = "running"
    /\ MainGather # "pending"
    /\ main_st' = IF MainGather = "failed" THEN "failed" ELSE "returned"
    /\ UNCHANGED <<regVars, queueVars, cmdLoopVars, updLoopVars, guiVars,
                   _application_closed, cbVars>>

(* ---------------------------- specification ---------------------------- *)
\* Spec is the whole system.  SpecDispatch, SpecUpdate, SpecRegistry and
\* SpecServe below take subsets of its actions: every behaviour of theirs is
\* a behaviour of Spec (up to the history variable reg_op), over a part of
\* the state small enough to explore exhaustively.
Next ==
    \/ \E h \in Handlers : execute_async_command(h)
    \/ \E f \in Funcs : AddObserved(f)
    \/ \E f \in Funcs : RemoveObserved(f)
    \/ \E h \in Handlers : UserClick(h)
    \/ UserClose
    \/ MainloopStart
    \/ GuiDooneeventClick
    \/ GuiDooneeventDestroy
    \/ GuiCheck
    \/ GuiWake
    \/ \E i \in 1..Len(cmds) : HandlerStart(i)
    \/ \E i \in 1..Len(cmds) : HandlerFinish(i)
    \/ CmdIterate
    \/ CmdAwaitResume
    \/ UpdStart
    \/ Tick
    \/ \E i \in 1..Len(coroutines) : TaskFinish(i)
    \/ Deadline
    \/ FloorElapse
    \/ OrphanFinish
    \/ UpdResume
    \/ MainloopComplete

Spec == Init /\ [][Next]_vars

\* Behaviours in which the update registry stays as constructed: the
\* dispatcher, the event pump and the update cycle.
NextDispatch ==
    \/ \E h \in Handlers : execute_async_command(h)
    \/ \E h \in Handlers : UserClick(h)
    \/ UserClose
    \/ MainloopStart
    \/ GuiDooneeventClick
    \/ GuiDooneeventDestroy
    \/ GuiCheck
    \/ GuiWake
    \/ \E i \in 1..Len(cmds) : HandlerStart(i)
    \/ \E i \in 1..Len(cmds) : HandlerFinish(i)
    \/ CmdIterate
    \/ CmdAwaitResume
    \/ UpdStart
    \/ Tick
    \/ Deadline
    \/ FloorElapse
    \/ UpdResume
    \/ MainloopComplete

SpecDispatch == Init /\ [][NextDispatch]_vars

\* Behaviours of the registry and the update scheduler: no native event
\* arrives, and after the first tick of the event pump only the update
\* scheduler, its tasks and mainloop() are scheduled.  The steps left out
\* neither read nor write the registry or the state of the update scheduler,
\* and the registry operations are not recorded in reg_op.
NextUpdate ==
    \/ \E f \in Funcs : add_update_func(f) /\ UNCHANGED reg_op
    \/ \E f \in Funcs : remove_update_func(f) /\ UNCHANGED reg_op
    \/ MainloopStart
    \/ GuiCheck
    \/ UpdStart
    \/ Tick
    \/ \E i \in 1..Len(coroutines) : TaskFinish(i)
    \/ Deadline
    \/ FloorElapse
    \/ OrphanFinish
    \/ UpdResume
    \/ MainloopComplete

SpecUpdate == Init /\ [][NextUpdate]_vars

\* Behaviours of the public operations called from synchronous code while the
\* event pump runs: registry operations and button callbacks.
NextRegistry ==
    \/ \E h \in Handlers : execute_async_command(h)
    \/ \E f \in Funcs : AddObserved(f)
    \/ \E f \in Funcs : RemoveObserved(f)
    \/ \E h \in Handlers : UserClick(h)
    \/ MainloopStart
    \/ GuiDooneeventClick
    \/ GuiCheck
    \/ GuiWake

SpecRegistry == Init /\ [][NextRegistry]_vars

\* Behaviours of the dispatcher and the event pump with handlers that all
\* return, under the scheduling of the asyncio event loop.  The update
\* scheduler is left out: its steps change nothing the dispatcher, the
\* handlers or the pump read.
NextServe ==
    \/ execute_async_command("h_ok")
    \/ UserClick("h_ok")
    \/ UserClose
    \/ MainloopStart
    \/ GuiDooneeventClick
    \/ GuiDooneeventDestroy
    \/ GuiCheck
    \/ GuiWake
    \/ \E i \in 1..Len(cmds) : HandlerStart(i)
    \/ \E i \in 1..Len(cmds) : HandlerFinish(i)
    \/ CmdIterate
    \/ CmdAwaitResume

\* The event drain is synchronous code and runs on to its end; the timer of
\* the pump's sleep fires; and the loop runs every ready callback (a task
\* taking a step, the dispatcher resumed from its await or from its sleep)
\* each time the pump has suspended, which it does again and again.
ServeFairness ==
    /\ WF_vars(GuiDooneeventClick)
    /\ WF_vars(GuiDooneeventDestroy)
    /\ WF_vars(GuiCheck)
    /\ WF_vars(GuiWake)
    /\ SF_vars(\E i \in 1..Len(cmds) : HandlerStart(i))
    /\ SF_vars(\E i \in 1..Len(cmds) : HandlerFinish(i))
    /\ SF_vars(CmdIterate)
    /\ SF_vars(CmdAwaitResume)

SpecServe == Init /\ [][NextServe]_vars /\ ServeFairness

(* ------------------------------- claims -------------------------------- *)
Count(l, f) == Cardinality({i \in 1..Len(l) : l[i] = f})

TaskFuncs(cs) == [i \in 1..Len(cs) |-> cs[i].f]

\* A handler has started once its task has taken its first step.
Started(i) == cmds[i].st # "scheduled"

\* C1: the handlers behind the callbacks run strictly in submission order and
\* never overlap: no handler has started while a handler submitted before it
\* has not completed.
C1_HandlersSerial ==
    \A i, j \in 1..Len(cmds) :
        i < j /\ Started(j) => Finished(cmds[i].st)

\* Dequeued entries whose await is not over.
InFlight == {i \in Range(dequeued) : ~Finished(cmds[i].st)}

\* C2: the dispatcher takes the entries off commands_queue in the order they
\* were put, one at a time, and awaits each to completion before it takes the
\* next: at most one dequeued entry is unfinished, and it is the one the
\* dispatcher is awaiting.
C2_DispatchFifoSerial ==
    /\ dequeued \o commands_queue = [i \in 1..Len(cmds) |-> i]
    /\ Cardinality(InFlight) <= 1
    /\ InFlight # {} => cmd_pc = "await" /\ cmd_cur \in InFlight
    /\ cmd_pc = "await" => cmd_cur = dequeued[Len(dequeued)]

C2_Witness ==
    /\ Len(dequeued) >= 2
    /\ cmd_pc = "await"
    /\ cmd_cur = 2
    /\ commands_queue # <<>>

\* C3: invoking a callback made by execute_async_command appends exactly one
\* entry, the new command, at the tail of commands_queue, whatever the length
\* of the queue, and returns to the caller without blocking or suspending it;
\* the entries already queued and the update registry stay as they are.
C3_WrapperAppendsOne ==
    [][GuiDooneeventClick =>
         /\ Len(commands_queue') = Len(commands_queue) + 1
         /\ SubSeq(commands_queue', 1, Len(commands_queue)) = commands_queue
         /\ commands_queue'[Len(commands_queue')] = Len(cmds')
         /\ Len(cmds') = Len(cmds) + 1
         /\ cmds'[Len(cmds')].h = Head(events)
         /\ ~blocked'
         /\ gui_pc' = "drain"
         /\ _update_funcs' = _update_funcs]_vars

C3_Witness ==
    /\ Len(commands_queue) >= 2
    /\ _update_funcs # <<>>
    /\ gui_pc = "drain"
    /\ ~blocked

\* C4: a cycle whose update callables (none, one or several) all returned
\* before the interval elapsed lasts at least the interval: the step that
\* ends it, which is the step that invokes the callables of the next cycle,
\* is taken no earlier than the interval after the cycle started.
C4_FloorHolds ==
    /\ last.ended /\ last.ok => last.len >= Interval
    /\ upd_pc = "wait" /\ floor_st = "done" => elapsed >= Interval

C4_Witness ==
    /\ last.ended /\ last.ok /\ last.len = Interval
    /\ upd_pc = "wait"
    /\ coroutines # <<>>
    /\ wait_for_st = "done"
    /\ elapsed < Interval

\* C5: a cycle in which a callable is still running when the deadline expires
\* reports exactly one overrun, the loop goes on to the next cycle, and it
\* does so at the deadline, without waiting for the slow callable.
C5_OverrunOncePerCycle ==
    /\ last.ended /\ last.exc = "timeout" =>
         /\ last.prints = 1
         /\ last.len = Interval
         /\ upd_pc = "wait"
    /\ wait_for_st = "timeout" => elapsed = Interval /\ Running(coroutines) = {}

C5_Witness ==
    /\ last.ended /\ last.exc = "timeout"
    /\ upd_pc = "wait"
    /\ wait_for_st = "timeout"
    /\ \E i \in 1..Len(coroutines) : coroutines[i].st = "cancelled"

\* The step starts a cycle.
StartsCycle == UpdStart \/ (UpdResume /\ upd_pc' = "wait")

\* C6: a cycle runs the registry as it was when the cycle started: a registry
\* operation during the cycle leaves the tasks of the cycle as they are, and
\* the next cycle starts from the registry as it then is.
C6_Snapshot ==
    [][/\ upd_pc = "wait" /\ _update_funcs' # _update_funcs =>
            upd_pc' = "wait" /\ coroutines' = coroutines
       /\ StartsCycle => TaskFuncs(coroutines') = _update_funcs']_vars

C6_Witness ==
    /\ upd_pc = "wait"
    /\ last.ended
    /\ TaskFuncs(coroutines) # _update_funcs
    /\ Running(coroutines) # {}

C8_RemoveAbsent ==
    [][\A f \in Funcs :
          RemoveObserved(f) /\ f \notin Range(_update_funcs) =>
             /\ reg_op'.op = "ValueError"
             /\ _update_funcs' = _update_funcs
             /\ commands_queue' = commands_queue
             /\ cmds' = cmds]_vars

C8_Witness ==
    /\ reg_op.op = "ValueError"
    /\ _update_funcs = reg_op.before
    /\ _update_funcs # <<>>
    /\ commands_queue # <<>>

\* C9: once the window is destroyed the event pump ends normally, and only
\* then; the update scheduler and the dispatcher never end normally, and
\* mainloop() never returns.
C9_MainloopNeverReturns ==
    /\ main_st # "returned"
    /\ upd_pc # "done"
    /\ cmd_pc # "done"
    /\ gui_pc # "failed"
    /\ gui_pc = "done" => ~window_alive

C9_Witness ==
    /\ gui_pc = "done"
    /\ main_st = "running"
    /\ upd_pc = "wait" /\ last.ended
    /\ cmd_pc = "await"

\* C10: mainloop() completes only when the three loops are complete or one of
\* them has raised, and once it has failed the two other loops are cancelled:
\* the update scheduler and the event pump take no further step.
C10_FailureCancelsOthers ==
    [][/\ main_st' = "returned" => MainGather = "done"
       /\ main_st' = "failed" /\ main_st = "running" => MainGather = "failed"
       /\ main_st = "failed" =>
            /\ gui_pc' = gui_pc
            /\ upd_pc' = upd_pc /\ coroutines' = coroutines
            /\ wait_for_st' = wait_for_st /\ floor_st' = floor_st]_vars

\* C11: an error raised by a command is not caught by the dispatcher: it
\* leaves _command_mainloop at the await of that command, so the failed
\* command is the last one ever dequeued, the loop takes no further step,
\* and the gather of mainloop() fails.
C11_CommandErrorEndsDispatcher ==
    /\ [](/\ \A k \in 1..Len(dequeued) :
               cmds[dequeued[k]].st = "failed" =>
                  /\ k = Len(dequeued)
                  /\ cmd_pc = "failed" \/ (cmd_pc = "await" /\ cmd_cur = dequeued[k])
          /\ cmd_pc = "failed" =>
               /\ dequeued # <<>>
               /\ cmds[dequeued[Len(dequeued)]].st = "failed"
               /\ MainGather = "failed"
               /\ main_st \in {"running", "failed"}
          /\ main_st = "failed" /\ upd_pc # "failed" => cmd_pc = "failed")
    /\ [][cmd_pc = "failed" =>
            /\ UNCHANGED cmdLoopVars
            /\ Len(commands_queue') >= Len(commands_queue)]_vars

C11_Witness ==
    /\ cmd_pc = "failed"
    /\ main_st = "failed"
    /\ commands_queue # <<>>
    /\ Len(dequeued) >= 2

\* C12: the event pump leaves its drain loop, for the liveness query and the
\* sleep, only when no native event is pending, and it ends only from that
\* query, with the window gone; during the drain each pending event is taken
\* in turn and handled (a click invokes its callback).
C12_DrainsBeforeCheck ==
    [][/\ gui_pc = "drain" /\ gui_pc' # "drain" =>
            /\ events = <<>> /\ events' = <<>>
            /\ gui_pc' \in {"sleep", "done"}
       /\ gui_pc' = "done" /\ gui_pc # "done" =>
            gui_pc = "drain" /\ ~window_alive
       /\ gui_pc' = "sleep" /\ gui_pc # "sleep" => window_alive
       /\ gui_pc = "drain" /\ gui_pc' = "drain" /\ Len(events') < Len(events) =>
            \/ /\ Head(events) \in Handlers /\ events' = Tail(events)
               /\ calls' = calls + 1
            \/ Head(events) = "destroy" /\ ~window_alive']_vars

\* The pump sleeps after a drain that processed several clicks while no
\* other coroutine ran.
C12_Witness ==
    /\ gui_pc = "sleep"
    /\ events = <<>>
    /\ calls >= 2
    /\ cmd_pc = "ready" /\ upd_pc = "start"

\* C13: when the deadline of a cycle expires, every task of the cycle that
\* is still running is cancelled, so none of them runs on into the next
\* cycle; tasks are cancelled at no other point, and no command and none of
\* the three loops is ever cancelled.
C13_DeadlineCancelsGroup ==
    /\ wait_for_st = "timeout" =>
         /\ \A i \in 1..Len(coroutines) : coroutines[i].st \in {"ok", "cancelled"}
         /\ \E i \in 1..Len(coroutines) : coroutines[i].st = "cancelled"
    /\ (\E i \in 1..Len(coroutines) : coroutines[i].st = "cancelled") =>
         wait_for_st = "timeout" /\ elapsed = Interval
    /\ \A i \in 1..Len(cmds) : cmds[i].st # "cancelled"
    /\ {gui_pc, upd_pc, cmd_pc} \cap {"cancelled"} = {}

C13_Witness ==
    /\ wait_for_st = "timeout"
    /\ Len(coroutines) = 2
    /\ \A i \in 1..Len(coroutines) : coroutines[i].st = "cancelled"
    /\ upd_pc = "wait"

\* C14: _application_closed is never set: it is false in every reachable
\* state, also after the window was destroyed and the event pump has ended
\* and after a loop has failed, so the update scheduler never takes its exit
\* branch and never ends normally.
C14_NeverClosed ==
    /\ _application_closed = FALSE
    /\ ~ExitRequested
    /\ upd_pc # "done"
    /\ upd_pc \in {"idle", "start", "wait", "failed"}

\* The window is gone, the pump has ended, and the update scheduler has
\* since completed a cycle and started another.
C14_Witness ==
    /\ ~window_alive
    /\ gui_pc = "done"
    /\ last.ended /\ last.len = Interval
    /\ upd_pc = "wait" /\ elapsed = 1

\* C15: an ordinary error raised by an update function ends the wait on the
\* group of its cycle at once, with that error (the other tasks of the group
\* are not cancelled); the scheduler does not catch it and reports no overrun
\* for it; its loop ends there, no further cycle is started, and the gather
\* of mainloop() fails.
C15_UpdateErrorEndsScheduler ==
    /\ [](/\ wait_for_st = "error" =>
               /\ upd_pc \in {"wait", "failed"}
               /\ OuterGather = "failed"
               /\ \A i \in 1..Len(coroutines) : coroutines[i].st # "cancelled"
          /\ last.ended /\ last.exc = "error" =>
               /\ upd_pc = "failed"
               /\ last.prints = 0
               /\ wait_for_st = "error"
               /\ MainGather = "failed"
               /\ main_st \in {"running", "failed"}
          /\ upd_pc = "failed" => last.ended /\ last.exc = "error"
          /\ main_st = "failed" /\ cmd_pc # "failed" => upd_pc = "failed")
    /\ [][upd_pc = "failed" =>
            UNCHANGED <<upd_pc, coroutines, elapsed, wait_for_st, floor_st,
                        last>>]_vars

\* The scheduler has ended on the error of one task, before the interval was
\* over, while a task of the same cycle goes on running.
C15_Witness ==
    /\ upd_pc = "failed"
    /\ main_st = "failed"
    /\ last.exc = "error" /\ last.len < Interval
    /\ \E i \in 1..Len(coroutines) : coroutines[i].st = "orphaned"
    /\ orphans > 0

\* A step of the dispatcher.
DispatcherStep == cmdLoopVars' # cmdLoopVars /\ cmd_pc # "idle"

\* C16 as stated: an iteration takes exactly one entry, the head of the
\* queue, and the dispatcher goes into its delay only from an iteration that
\* found the queue empty, so not after a command.
C16_IdleOnlyWhenEmpty ==
    [][/\ dequeued' # dequeued =>
            /\ commands_queue # <<>>
            /\ dequeued' = Append(dequeued, Head(commands_queue))
            /\ commands_queue' = Tail(commands_queue)
       /\ DispatcherStep /\ cmd_pc' = "sleep" =>
            cmd_pc \in {"ready", "sleep"} /\ commands_queue = <<>>]_vars

\* C16, amended: an iteration takes exactly one entry, the head of the
\* queue, and every iteration ends in the delay, whether it found the queue
\* empty or awaited a command: when the await of a command is over the
\* dispatcher sleeps (unless the command failed) and takes nothing from the
\* queue in that step, and every entry but the first of a run is taken by a
\* dispatcher that comes out of the delay.
C16_DelayEveryIteration ==
    [][/\ dequeued' # dequeued =>
            /\ commands_queue # <<>>
            /\ dequeued' = Append(dequeued, Head(commands_queue))
            /\ commands_queue' = Tail(commands_queue)
            /\ cmd_pc \in {"ready", "sleep"}
            /\ dequeued # <<>> => cmd_pc = "sleep"
       /\ DispatcherStep /\ cmd_pc = "await" =>
            /\ cmd_pc' \in {"sleep", "failed"}
            /\ dequeued' = dequeued /\ commands_queue' = commands_queue
       /\ DispatcherStep => cmd_pc' \in {"sleep", "await", "failed"}]_vars

\* A command has completed, further entries are queued, and the dispatcher
\* is in its delay.
C16_Witness ==
    /\ cmd_pc = "sleep"
    /\ dequeued # <<>>
    /\ cmds[dequeued[Len(dequeued)]].st = "done"
    /\ commands_queue # <<>>

\* C17: an overrun is reported only for a cycle whose deadline expired with
\* a task of the cycle still running; a cycle in which every task has
\* finished before the deadline, by returning or by raising any error, a
\* TimeoutError of its own included, reports no overrun and is not followed
\* by the next cycle before the interval has elapsed.
C17_OverrunOnlyOnDeadline ==
    /\ last.ended /\ last.prints > 0 =>
         last.exc = "timeout" /\ last.len = Interval
    /\ last.ended /\ upd_pc = "wait" => last.len >= Interval

\* C18: with handlers that all return, and the loop scheduling every ready
\* callback, every entry put on commands_queue is eventually taken off it by
\* the dispatcher and awaited until its command is done, whatever is
\* submitted in the meantime; and from some point on the queue stays empty.
C18_EveryEntryServed ==
    /\ \A i \in 1..MaxCmds :
          (i \in Range(commands_queue)) ~>
             (i \in Range(dequeued) /\ cmds[i].st = "done" /\ cmd_cur # i)
    /\ <>[](commands_queue = <<>>)

\* Every callback invocation of the run has been served, the last of them
\* from behind an earlier entry, and the dispatcher idles on an empty queue.
C18_Witness ==
    /\ Len(cmds) = MaxCmds
    /\ Len(dequeued) = MaxCmds
    /\ \A i \in 1..Len(cmds) : cmds[i].st = "done"
    /\ commands_queue = <<>>
    /\ cmd_pc = "sleep"

\* C19: every invocation of a callback makes one task for the handler and
\* one queue entry, its own: there are as many tasks, and as many entries
\* put, as invocations, so no more handlers started than invocations, also
\* when one callback is invoked several times; making a callback without
\* invoking it makes no task and puts nothing on the queue.
C19_OneExecutionPerInvocation ==
    /\ Cardinality({i \in 1..Len(cmds) : Started(i)}) <= calls
    /\ Len(cmds) = calls
    /\ Len(dequeued) + Len(commands_queue) = calls
    /\ Cardinality(Range(dequeued) \cup Range(commands_queue)) = calls
    /\ \A i \in 1..Len(cmds) : cmds[i].h \in callbacks
    /\ calls = 0 => cmds = <<>> /\ commands_queue = <<>> /\ dequeued = <<>>

\* One callback was invoked MaxCmds times and its handler has started as many
\* times; the other callback was made and never invoked.
C19_Witness ==
    /\ callbacks = Handlers
    /\ calls = MaxCmds
    /\ \A i \in 1..Len(cmds) : cmds[i].h = "h_ok" /\ Started(i)
    /\ Len(dequeued) + Len(commands_queue) = MaxCmds

====
